---- MODULE Spec2Model ----
(***************************************************************************)
(* Model of AI_tool/streamlit_app.py: the text / PDF submit handlers,      *)
(* extract_text_from_pdf, get_calendar_service and analyze_and_schedule.   *)
(* Python strings are sequences of one-character strings; Python and JSON  *)
(* values are tagged records.                                              *)
(***************************************************************************)
EXTENDS Integers, Sequences, FiniteSets, TLC

\* ------------------------------------------------------------------ bounds
MaxEvents == 2
MaxPages == 2
MaxOver == 2

\* --------------------------------------------------------- program constant
\* content[:5000]
MaxPromptChars == 5000

\* ------------------------------------------------------------ Python values
PyNone == [t |-> "null"]
PyUnset == [t |-> "unset"]
PyBool(b) == [t |-> "bool", b |-> b]
PyInt(n) == [t |-> "int", n |-> n]
PyStr(s) == [t |-> "str", s |-> s]
PyList(xs) == [t |-> "list", elems |-> xs]
PyDict(ps) == [t |-> "dict", pairs |-> ps]
Pair(k, v) == [k |-> k, v |-> v]

\* bool(v): the truth value Python gives a value in `if v` / `not v`
Truthy(v) ==
    CASE v.t = "null" -> FALSE
      [] v.t = "bool" -> v.b
      [] v.t = "int" -> v.n # 0
      [] v.t = "str" -> Len(v.s) > 0
      [] v.t = "list" -> Len(v.elems) > 0
      [] v.t = "dict" -> Len(v.pairs) > 0
      [] OTHER -> FALSE

\* key in d, for a dict
HasKey(d, k) == \E j \in 1..Len(d.pairs) : d.pairs[j].k = k

\* d[k] for a dict holding k: json.loads keeps the last of duplicate keys
GetKey(d, k) ==
    LET js == {j \in 1..Len(d.pairs) : d.pairs[j].k = k}
        last == CHOOSE j \in js : \A m \in js : m <= j
    IN d.pairs[last].v

\* d.get(k, default)
DictGet(d, k, default) == IF HasKey(d, k) THEN GetKey(d, k) ELSE default

\* ----------------------------------------------------------- Python strings
Min(a, b) == IF a < b THEN a ELSE b

\* s[:stop] for stop >= 0
Slice(s, stop) == SubSeq(s, 1, Min(Len(s), stop))

\* s[i..] starts with pat
MatchAt(s, i, pat) ==
    /\ i + Len(pat) - 1 <= Len(s)
    /\ \A j \in 1..Len(pat) : s[i + j - 1] = pat[j]

\* pat in s, for str
Contains(s, pat) == \E i \in 1..(Len(s) + 1) : MatchAt(s, i, pat)

RECURSIVE ReplaceFrom(_, _, _)
ReplaceFrom(s, i, pat) ==
    LET ms == {k \in i..Len(s) : MatchAt(s, k, pat)}
    IN IF ms = {} THEN SubSeq(s, i, Len(s))
       ELSE LET m == CHOOSE k \in ms : \A n \in ms : k <= n
            IN SubSeq(s, i, m - 1) \o ReplaceFrom(s, m + Len(pat), pat)

\* s.replace(pat, ""): every non-overlapping occurrence, left to right
Replace(s, pat) == ReplaceFrom(s, 1, pat)

Whitespace == {" ", "\n", "\t"}

\* s.strip()
Strip(s) ==
    LET keep == {i \in 1..Len(s) : s[i] \notin Whitespace}
    IN IF keep = {} THEN <<>>
       ELSE LET lo == CHOOSE i \in keep : \A m \in keep : i <= m
                hi == CHOOSE i \in keep : \A m \in keep : m <= i
            IN SubSeq(s, lo, hi)

Quote == "\""
\* the grave accent U+0060, which a TLA+ string literal cannot hold
Backtick == "BACKTICK"
Fence == <<Backtick, Backtick, Backtick>>
FenceJson == Fence \o <<"j", "s", "o", "n">>

\* response.text.replace(FenceJson, "").replace(Fence, "").strip()
Clean(text) == Strip(Replace(Replace(text, FenceJson), Fence))

\* ------------------------------------------------------------ key literals
EVENTS == <<"e", "v", "e", "n", "t", "s">>
SUMMARY == <<"s", "u", "m", "m", "a", "r", "y">>
START_TIME == <<"s", "t", "a", "r", "t", "_", "t", "i", "m", "e">>
END_TIME == <<"e", "n", "d", "_", "t", "i", "m", "e">>
DefaultSummary == <<"N", "e", "w">>

\* ---------------------------------------------------------------- json.loads
Digits == <<"0", "1", "2", "3", "4", "5", "6", "7", "8", "9">>
IsDigit(c) == \E d \in 1..10 : Digits[d] = c
DigitVal(c) == (CHOOSE d \in 1..10 : Digits[d] = c) - 1
ControlChars == {"\n", "\t"}

ParseFail == [ok |-> FALSE, v |-> PyNone, i |-> 0]
ParseOk(v, i) == [ok |-> TRUE, v |-> v, i |-> i]

RECURSIVE SkipWs(_, _)
SkipWs(s, i) == IF i <= Len(s) /\ s[i] \in Whitespace THEN SkipWs(s, i + 1) ELSE i

\* the characters of a string literal whose opening quote is before i
ParseString(s, i) ==
    LET qs == {k \in i..Len(s) : s[k] = Quote}
    IN IF qs = {} THEN ParseFail
       ELSE LET q == CHOOSE k \in qs : \A n \in qs : k <= n
            IN IF \E k \in i..(q - 1) : s[k] \in ControlChars \/ s[k] = "\\"
               THEN ParseFail
               ELSE ParseOk(PyStr(SubSeq(s, i, q - 1)), q + 1)

RECURSIVE ParseNumber(_, _, _)
ParseNumber(s, i, acc) ==
    IF i <= Len(s) /\ IsDigit(s[i])
    THEN ParseNumber(s, i + 1, acc * 10 + DigitVal(s[i]))
    ELSE ParseOk(PyInt(acc), i)

RECURSIVE ParseValue(_, _)
RECURSIVE ParseElems(_, _, _)
RECURSIVE ParsePairs(_, _, _)

\* the elements of an array after "[" or ","; i is at the next element
ParseElems(s, i, acc) ==
    LET r == ParseValue(s, i)
        j == SkipWs(s, r.i)
    IN IF ~r.ok \/ j > Len(s) THEN ParseFail
       ELSE IF s[j] = "]" THEN ParseOk(PyList(Append(acc, r.v)), j + 1)
       ELSE IF s[j] = "," THEN ParseElems(s, j + 1, Append(acc, r.v))
       ELSE ParseFail

\* the members of an object after "{" or ","; i is at the next key
ParsePairs(s, i, acc) ==
    LET k0 == SkipWs(s, i)
    IN IF k0 > Len(s) \/ s[k0] # Quote THEN ParseFail
       ELSE LET key == ParseString(s, k0 + 1)
                c == SkipWs(s, key.i)
            IN IF ~key.ok \/ c > Len(s) \/ s[c] # ":" THEN ParseFail
               ELSE LET r == ParseValue(s, c + 1)
                        j == SkipWs(s, r.i)
                        acc2 == Append(acc, Pair(key.v.s, r.v))
                    IN IF ~r.ok \/ j > Len(s) THEN ParseFail
                       ELSE IF s[j] = "}" THEN ParseOk(PyDict(acc2), j + 1)
                       ELSE IF s[j] = "," THEN ParsePairs(s, j + 1, acc2)
                       ELSE ParseFail

ParseValue(s, i0) ==
    LET i == SkipWs(s, i0)
    IN IF i > Len(s) THEN ParseFail
       ELSE IF s[i] = Quote THEN ParseString(s, i + 1)
       ELSE IF s[i] = "[" THEN
            LET j == SkipWs(s, i + 1)
            IN IF j <= Len(s) /\ s[j] = "]" THEN ParseOk(PyList(<<>>), j + 1)
               ELSE ParseElems(s, j, <<>>)
       ELSE IF s[i] = "{" THEN
            LET j == SkipWs(s, i + 1)
            IN IF j <= Len(s) /\ s[j] = "}" THEN ParseOk(PyDict(<<>>), j + 1)
               ELSE ParsePairs(s, j, <<>>)
       ELSE IF MatchAt(s, i, <<"n", "u", "l", "l">>) THEN ParseOk(PyNone, i + 4)
       ELSE IF MatchAt(s, i, <<"t", "r", "u", "e">>) THEN ParseOk(PyBool(TRUE), i + 4)
       ELSE IF MatchAt(s, i, <<"f", "a", "l", "s", "e">>) THEN ParseOk(PyBool(FALSE), i + 5)
       ELSE IF s[i] = "0" THEN ParseOk(PyInt(0), i + 1)
       ELSE IF IsDigit(s[i]) THEN ParseNumber(s, i, 0)
       ELSE ParseFail

\* json.loads(s): ok = FALSE stands for JSONDecodeError
JsonLoads(s) ==
    LET r == ParseValue(s, 1)
    IN IF r.ok /\ SkipWs(s, r.i) > Len(s) THEN r ELSE ParseFail

\* ---------------------------------------- texts a language model may return
RECURSIVE Dumps(_)
RECURSIVE DumpElems(_, _)
RECURSIVE DumpPairs(_, _)
DumpElems(xs, i) ==
    IF i > Len(xs) THEN <<>>
    ELSE (IF i > 1 THEN <<",", " ">> ELSE <<>>) \o Dumps(xs[i]) \o DumpElems(xs, i + 1)
DumpPairs(ps, i) ==
    IF i > Len(ps) THEN <<>>
    ELSE (IF i > 1 THEN <<",", " ">> ELSE <<>>)
         \o <<Quote>> \o ps[i].k \o <<Quote, ":", " ">> \o Dumps(ps[i].v)
         \o DumpPairs(ps, i + 1)
Dumps(v) ==
    CASE v.t = "null" -> <<"n", "u", "l", "l">>
      [] v.t = "bool" -> IF v.b THEN <<"t", "r", "u", "e">> ELSE <<"f", "a", "l", "s", "e">>
      [] v.t = "int" -> <<Digits[v.n + 1]>>
      [] v.t = "str" -> <<Quote>> \o v.s \o <<Quote>>
      [] v.t = "list" -> <<"[">> \o DumpElems(v.elems, 1) \o <<"]">>
      [] v.t = "dict" -> <<"{">> \o DumpPairs(v.pairs, 1) \o <<"}">>

\* ------------------------------------------------------------ environment
\* event candidates a reply may carry
StartStr == PyStr(<<"T", "1">>)
EndStr == PyStr(<<"T", "2">>)
TitleStr == PyStr(<<"m">>)
CandFull == PyDict(<<Pair(SUMMARY, TitleStr), Pair(START_TIME, StartStr), Pair(END_TIME, EndStr)>>)
CandNoEnd == PyDict(<<Pair(SUMMARY, TitleStr), Pair(START_TIME, StartStr)>>)
CandNullEnd == PyDict(<<Pair(SUMMARY, TitleStr), Pair(START_TIME, StartStr), Pair(END_TIME, PyNone)>>)
CandNoSummary == PyDict(<<Pair(START_TIME, StartStr), Pair(END_TIME, EndStr)>>)
CandNoStart == PyDict(<<Pair(SUMMARY, TitleStr)>>)
CandInt == PyInt(7)
Candidates == {CandFull, CandNoEnd, CandNullEnd, CandNoSummary, CandNoStart}

SeqsUpTo(S, n) == UNION {[1..k -> S] : k \in 0..n}
EventsDict(x) == PyDict(<<Pair(EVENTS, x)>>)

\* replies of the requested shape: {"events": [candidate, ...]}
ListedValues ==
    {EventsDict(PyList(xs)) : xs \in SeqsUpTo(Candidates, MaxEvents)}
    \cup {EventsDict(PyList(<<CandFull, CandFull, CandFull>>))}

\* valid JSON of other shapes
OddValues ==
    { PyNone, PyInt(0), PyInt(5), PyBool(TRUE), PyStr(<<"x">>), PyStr(EVENTS),
      PyList(<<>>), PyList(<<PyInt(1)>>), PyList(<<PyStr(EVENTS)>>),
      PyDict(<<>>), PyDict(<<Pair(SUMMARY, TitleStr)>>),
      EventsDict(PyNone), EventsDict(PyInt(5)), EventsDict(PyStr(<<"a", "b">>)),
      EventsDict(CandFull), EventsDict(PyList(<<CandInt>>)),
      EventsDict(PyList(<<CandFull, CandInt, CandFull>>)) }

\* text that is not JSON
MalformedTexts == { <<>>, <<"{">>, <<"s", "o", "r", "r", "y">>,
                    <<"{", Quote, "a", Quote, ":", "}">> }

\* payloads whose title holds backticks
FencePayloads ==
    { EventsDict(PyList(<<PyDict(<<Pair(SUMMARY, PyStr(t)), Pair(START_TIME, StartStr)>>)>>)) :
        t \in { <<"m">>, <<"a">> \o Fence \o <<"b">>, Fence \o <<"j", "s", "o", "n">>,
                <<Backtick, "a">> } }

Wrappers == { [open |-> FenceJson \o <<"\n">>, close |-> <<"\n">> \o Fence],
              [open |-> Fence \o <<"\n">>, close |-> <<"\n">> \o Fence \o <<"\n">>] }
Wrap(w, payload) == w.open \o payload \o w.close

Replies ==
    {Dumps(v) : v \in ListedValues \cup OddValues} \cup MalformedTexts
    \cup {Wrap(w, Dumps(v)) : w \in Wrappers, v \in FencePayloads}

FewReplies == {Dumps(EventsDict(PyList(<<CandFull>>))), <<"{">>}

\* what model.generate_content / response.text does: raise, or hand back text
Outcomes(texts) ==
    {[raises |-> TRUE, text |-> <<>>]} \cup {[raises |-> FALSE, text |-> r] : r \in texts}

UserInputs == { <<>>, <<"h", "i">> }
Clock == {"t0"}

\* long inputs around the truncation limit
Alphabet == <<"a", "b", "c">>
LongText(n, m) == [k \in 1..n |-> Alphabet[(k % m) + 1]]
LongInputs ==
    { LongText(n, m) :
        n \in {1, MaxPromptChars - 1, MaxPromptChars} \cup {MaxPromptChars + k : k \in 1..MaxOver},
        m \in 1..3 }
LongClock == {"t0", "t1"}

\* an uploaded document: whether pdfplumber.open succeeds, and per page what
\* page.extract_text() gives, or that it raises
PageOutcomes ==
    {[raises |-> TRUE, extracted |-> PyNone]}
    \cup {[raises |-> FALSE, extracted |-> x] : x \in {PyNone, PyStr(<<>>), PyStr(<<"a">>)}}
NoFile == [opens |-> FALSE, pages |-> <<>>]
Files == {NoFile} \cup {[opens |-> TRUE, pages |-> ps] : ps \in SeqsUpTo(PageOutcomes, MaxPages)}

\* the token record in the secrets; present = FALSE is a falsy TOKEN_DICT
NoCreds == [present |-> FALSE, token |-> FALSE, expired |-> FALSE, refresh_token |-> FALSE]
TokenDicts ==
    {NoCreds} \cup [present : {TRUE}, token : BOOLEAN, expired : BOOLEAN, refresh_token : BOOLEAN]

\* ------------------------------------------------------ extract_text_from_pdf
RECURSIVE ExtractPages(_, _, _)
\* variant: a page without text still contributes its newline
ExtractPagesNoSkip(pages, k, text) ==
    IF k > Len(pages) THEN PyStr(text)
    ELSE IF pages[k].raises THEN PyNone
    ELSE ExtractPages(pages, k + 1,
                      text \o (IF Truthy(pages[k].extracted) THEN pages[k].extracted.s ELSE <<>>)
                           \o <<"\n">>)

ExtractPages(pages, k, text) ==
    IF k > Len(pages) THEN PyStr(text)
    ELSE IF pages[k].raises THEN PyNone
    ELSE IF Truthy(pages[k].extracted)
         THEN ExtractPages(pages, k + 1, text \o pages[k].extracted.s \o <<"\n">>)
         ELSE ExtractPages(pages, k + 1, text)

extract_text_from_pdf(file) ==
    IF ~file.opens THEN PyNone ELSE ExtractPages(file.pages, 1, <<>>)

\* ------------------------------------------------------ get_calendar_service
Msg(kind, text, idx, count) == [kind |-> kind, text |-> text, idx |-> idx, count |-> count]

\* creds.valid
Valid(c) == c.token /\ ~c.expired

\* variant: refresh is tried for any expired credential, refresh token or not
get_calendar_service_any_expired(token_dict, refresh_ok) ==
    LET c == token_dict
    IN IF ~c.present \/ ~Valid(c)
       THEN IF c.present /\ c.expired
            THEN IF refresh_ok
                 THEN [service |-> "service",
                       creds |-> [c EXCEPT !.token = TRUE, !.expired = FALSE],
                       errors |-> <<>>, refreshes |-> <<"ok">>]
                 ELSE [service |-> "None", creds |-> c,
                       errors |-> <<Msg("error", "token_not_refreshable", 0, 0)>>,
                       refreshes |-> <<"raised">>]
            ELSE [service |-> "None", creds |-> c,
                  errors |-> <<Msg("error", "no_valid_credential", 0, 0)>>,
                  refreshes |-> <<>>]
       ELSE [service |-> "service", creds |-> c, errors |-> <<>>, refreshes |-> <<>>]

\* refresh_ok: whether creds.refresh(Request()) returns rather than raises
get_calendar_service(token_dict, refresh_ok) ==
    LET c == token_dict
    IN IF ~c.present \/ ~Valid(c)
       THEN IF c.present /\ c.expired /\ c.refresh_token
            THEN IF refresh_ok
                 THEN [service |-> "service",
                       creds |-> [c EXCEPT !.token = TRUE, !.expired = FALSE],
                       errors |-> <<>>, refreshes |-> <<"ok">>]
                 ELSE [service |-> "None", creds |-> c,
                       errors |-> <<Msg("error", "token_not_refreshable", 0, 0)>>,
                       refreshes |-> <<"raised">>]
            ELSE [service |-> "None", creds |-> c,
                  errors |-> <<Msg("error", "no_valid_credential", 0, 0)>>,
                  refreshes |-> <<>>]
       ELSE [service |-> "service", creds |-> c, errors |-> <<>>, refreshes |-> <<>>]

\* ------------------------------------------------------ analyze_and_schedule
PromptHead(now) == <<"now=", now, "rules", "example", "content=">>
PromptTail == <<"\n">>
\* variant: the text is embedded whole
BuildPromptWhole(now, text) == PromptHead(now) \o text \o PromptTail

BuildPrompt(now, text) == PromptHead(now) \o Slice(text, MaxPromptChars) \o PromptTail

\* "events" in data, for the types that support `in`
InData(data) ==
    CASE data.t = "dict" -> HasKey(data, EVENTS)
      [] data.t = "list" -> \E k \in 1..Len(data.elems) : data.elems[k] = PyStr(EVENTS)
      [] data.t = "str" -> Contains(data.s, EVENTS)
      [] OTHER -> FALSE

\* types for which `"events" in data` raises TypeError
InRaises(data) == data.t \in {"int", "bool", "null"}

\* types for which `for event in x` raises TypeError
IterRaises(x) == x.t \in {"int", "bool", "null"}

\* the items `for event in x` visits
IterItems(x) ==
    CASE x.t = "list" -> x.elems
      [] x.t = "str" -> [k \in 1..Len(x.s) |-> PyStr(<<x.s[k]>>)]
      [] x.t = "dict" -> [k \in 1..Len(x.pairs) |-> PyStr(x.pairs[k].k)]
      [] OTHER -> <<>>

\* the insert request body for a dict carrying start_time
Body(event) ==
    [summary |-> DictGet(event, SUMMARY, PyStr(DefaultSummary)),
     start |-> GetKey(event, START_TIME),
     end |-> DictGet(event, END_TIME, GetKey(event, START_TIME))]

\* ----------------------------------------------------------------- state
VARIABLES
    pc,            \* position of the running handler
    TOKEN_DICT,    \* token record loaded at start
    mode,          \* which submit button started the run
    uploaded_file, \* the document of a PDF run
    text,          \* result of extract_text_from_pdf
    content,       \* argument of analyze_and_schedule
    prompts,       \* prompts passed to model.generate_content, in order
    response,      \* response.text
    clean,         \* the cleaned text
    data,          \* json.loads(clean)
    creds,         \* credentials inside get_calendar_service
    refreshes,     \* creds.refresh calls, with how each ended
    service,       \* "unset", "None" or "service"
    events,        \* the items the for loop visits
    i,             \* position of the loop in events
    success_count,
    inserts,       \* events().insert(...).execute() calls, in order
    messages       \* st.error / st.warning / st.toast / st.success calls

vars == <<pc, TOKEN_DICT, mode, uploaded_file, text, content, prompts, response,
          clean, data, creds, refreshes, service, events, i, success_count,
          inserts, messages>>

Init ==
    /\ pc = "idle"
    /\ TOKEN_DICT \in TokenDicts
    /\ mode = "none"
    /\ uploaded_file = NoFile
    /\ text = PyUnset
    /\ content = <<>>
    /\ prompts = <<>>
    /\ response = PyUnset
    /\ clean = PyUnset
    /\ data = PyUnset
    /\ creds = NoCreds
    /\ refreshes = <<>>
    /\ service = "unset"
    /\ events = <<>>
    /\ i = 0
    /\ success_count = 0
    /\ inserts = <<>>
    /\ messages = <<>>

\* what a submit handler leaves alone
Untouched ==
    UNCHANGED <<TOKEN_DICT, prompts, response, clean, data, creds, refreshes,
                service, events, i, success_count, inserts>>

\* txt_btn pressed
SubmitText(user_input) ==
    /\ pc = "idle"
    /\ Untouched
    /\ mode' = "text"
    /\ uploaded_file' = NoFile
    /\ text' = PyUnset
    /\ IF Truthy(PyStr(user_input))
       THEN /\ content' = user_input
            /\ messages' = <<>>
            /\ pc' = "analyze"
       ELSE /\ content' = <<>>
            /\ messages' = <<Msg("warning", "empty_input", 0, 0)>>
            /\ pc' = "done"

\* pdf_btn pressed with a file uploaded
SubmitPdf(file) ==
    /\ pc = "idle"
    /\ Untouched
    /\ mode' = "pdf"
    /\ uploaded_file' = file
    /\ text' = extract_text_from_pdf(file)
    /\ IF Truthy(text')
       THEN /\ content' = text'.s
            /\ messages' = <<>>
            /\ pc' = "analyze"
       ELSE /\ content' = <<>>
            /\ messages' = <<Msg("error", "pdf_unreadable", 0, 0)>>
            /\ pc' = "done"

\* analyze_and_schedule up to the end of its first try block
Analyze(now, outcome) ==
    /\ pc = "analyze"
    /\ prompts' = Append(prompts, BuildPrompt(now, content))
    /\ IF outcome.raises
       THEN /\ UNCHANGED <<response, clean, data>>
            /\ messages' = Append(messages, Msg("error", "analysis_failed", 0, 0))
            /\ pc' = "done"
       ELSE /\ response' = PyStr(outcome.text)
            /\ clean' = PyStr(Clean(outcome.text))
            /\ LET parsed == JsonLoads(Clean(outcome.text))
               IN IF parsed.ok
                  THEN /\ data' = parsed.v
                       /\ UNCHANGED messages
                       /\ pc' = "check"
                  ELSE /\ UNCHANGED data
                       /\ messages' = Append(messages, Msg("error", "analysis_failed", 0, 0))
                       /\ pc' = "done"
    /\ UNCHANGED <<TOKEN_DICT, mode, uploaded_file, text, content, creds, refreshes,
                   service, events, i, success_count, inserts>>

\* if not data or "events" not in data
CheckEvents ==
    /\ pc = "check"
    /\ IF ~Truthy(data)
       THEN /\ messages' = Append(messages, Msg("warning", "no_events", 0, 0))
            /\ pc' = "done"
       ELSE IF InRaises(data)
       THEN /\ UNCHANGED messages
            /\ pc' = "crashed"
       ELSE IF ~InData(data)
       THEN /\ messages' = Append(messages, Msg("warning", "no_events", 0, 0))
            /\ pc' = "done"
       ELSE /\ UNCHANGED messages
            /\ pc' = "service"
    /\ UNCHANGED <<TOKEN_DICT, mode, uploaded_file, text, content, prompts, response,
                   clean, data, creds, refreshes, service, events, i, success_count,
                   inserts>>

\* variant: the loop is entered whatever get_calendar_service returned
GetServiceNoReturn(refresh_ok) ==
    /\ pc = "service"
    /\ LET r == get_calendar_service(TOKEN_DICT, refresh_ok)
       IN /\ service' = r.service
          /\ creds' = r.creds
          /\ refreshes' = refreshes \o r.refreshes
          /\ messages' = messages \o r.errors
          /\ pc' = "loop"
    /\ UNCHANGED <<TOKEN_DICT, mode, uploaded_file, text, content, prompts, response,
                   clean, data, events, i, success_count, inserts>>

\* service = get_calendar_service(); if not service: return
GetService(refresh_ok) ==
    /\ pc = "service"
    /\ LET r == get_calendar_service(TOKEN_DICT, refresh_ok)
       IN /\ service' = r.service
          /\ creds' = r.creds
          /\ refreshes' = refreshes \o r.refreshes
          /\ messages' = messages \o r.errors
          /\ pc' = IF r.service = "None" THEN "done" ELSE "loop"
    /\ UNCHANGED <<TOKEN_DICT, mode, uploaded_file, text, content, prompts, response,
                   clean, data, events, i, success_count, inserts>>

\* success_count = 0; for event in data['events']
BeginLoop ==
    /\ pc = "loop"
    /\ success_count' = 0
    /\ IF data.t # "dict" \/ IterRaises(GetKey(data, EVENTS))
       THEN /\ UNCHANGED <<events, i>>
            /\ pc' = "crashed"
       ELSE /\ events' = IterItems(GetKey(data, EVENTS))
            /\ i' = 1
            /\ pc' = IF Len(events') = 0 THEN "report" ELSE "insert"
    /\ UNCHANGED <<TOKEN_DICT, mode, uploaded_file, text, content, prompts, response,
                   clean, data, creds, refreshes, service, inserts, messages>>

\* one pass of the loop body; insert_ok: whether execute() returns or raises
InsertEvent(insert_ok) ==
    /\ pc = "insert"
    /\ LET event == events[i]
       IN IF event.t # "dict"
          THEN /\ messages' = Append(messages, Msg("error", "insert_failed", i, 0))
               /\ UNCHANGED <<inserts, success_count>>
          ELSE IF ~HasKey(event, START_TIME)
          THEN /\ messages' = Append(messages, Msg("error", "insert_failed", i, 0))
               /\ UNCHANGED <<inserts, success_count>>
          ELSE /\ inserts' = Append(inserts, [idx |-> i, body |-> Body(event), ok |-> insert_ok])
               /\ IF ~insert_ok
                  THEN /\ messages' = Append(messages, Msg("error", "insert_failed", i, 0))
                       /\ UNCHANGED success_count
                  ELSE IF ~HasKey(event, SUMMARY)
                  THEN /\ messages' = Append(messages, Msg("error", "insert_failed", i, 0))
                       /\ UNCHANGED success_count
                  ELSE /\ messages' = Append(messages, Msg("toast", "created", i, 0))
                       /\ success_count' = success_count + 1
    /\ i' = i + 1
    /\ pc' = IF i = Len(events) THEN "report" ELSE "insert"
    /\ UNCHANGED <<TOKEN_DICT, mode, uploaded_file, text, content, prompts, response,
                   clean, data, creds, refreshes, service, events>>

\* if success_count > 0: st.success(...)
Report ==
    /\ pc = "report"
    /\ messages' = IF success_count > 0
                   THEN Append(messages, Msg("success", "added", 0, success_count))
                   ELSE messages
    /\ pc' = "done"
    /\ UNCHANGED <<TOKEN_DICT, mode, uploaded_file, text, content, prompts, response,
                   clean, data, creds, refreshes, service, events, i, success_count,
                   inserts>>

Next ==
    \/ \E u \in UserInputs : SubmitText(u)
    \/ \E f \in Files : SubmitPdf(f)
    \/ \E now \in Clock, o \in Outcomes(Replies) : Analyze(now, o)
    \/ CheckEvents
    \/ \E r \in BOOLEAN : GetService(r)
    \/ BeginLoop
    \/ \E ok \in BOOLEAN : InsertEvent(ok)
    \/ Report

Spec == Init /\ [][Next]_vars

\* the same program fed texts around the truncation limit
NextLong ==
    \/ \E u \in LongInputs : SubmitText(u)
    \/ \E now \in LongClock, o \in Outcomes(FewReplies) : Analyze(now, o)
    \/ CheckEvents
    \/ \E r \in BOOLEAN : GetService(r)
    \/ BeginLoop
    \/ \E ok \in BOOLEAN : InsertEvent(ok)
    \/ Report

SpecLong == Init /\ [][NextLong]_vars

\* ------------------------------------------------------------- properties
MsgsOf(kind) == {k \in 1..Len(messages) : messages[k].kind = kind}
MsgsWith(kind, txt) ==
    {k \in 1..Len(messages) : messages[k].kind = kind /\ messages[k].text = txt}
OkInserts == {k \in 1..Len(inserts) : inserts[k].ok}
FailedInserts == {k \in 1..Len(inserts) : ~inserts[k].ok}
LoopFinished == pc = "done" /\ service = "service" /\ i = Len(events) + 1

\* C1: with every candidate a record carrying a start time, each candidate is
\* submitted exactly once in list order, there is one failure message per
\* failed insertion, and the count reported equals the number of successful
\* insertions.
C1_EveryCandidateCountedOnce ==
    (LoopFinished /\ \A k \in 1..Len(events) :
                        events[k].t = "dict" /\ HasKey(events[k], START_TIME))
    => /\ Len(inserts) = Len(events)
       /\ \A k \in 1..Len(inserts) : inserts[k].idx = k
       /\ Cardinality(MsgsWith("error", "insert_failed")) = Cardinality(FailedInserts)
       /\ success_count = Cardinality(OkInserts)
       /\ \A k \in MsgsOf("success") : messages[k].count = Cardinality(OkInserts)
       /\ Cardinality(OkInserts) > 0 => MsgsOf("success") # {}

EmptyEventsResult ==
    /\ data.t = "dict"
    /\ HasKey(data, EVENTS)
    /\ GetKey(data, EVENTS) = PyList(<<>>)

\* C2: when the reply parses to a mapping whose events list is empty (and the
\* calendar service is available), no insert call is made and the run ends
\* with an informational message and no error message.
C2_EmptyListInformsUser ==
    (EmptyEventsResult /\ pc = "done" /\ service = "service")
    => /\ inserts = <<>>
       /\ MsgsOf("warning") # {}
       /\ MsgsOf("error") = {}

\* a document from which no page yields text, or which cannot be opened
NoExtractableText(file) ==
    \/ ~file.opens
    \/ \A k \in 1..Len(file.pages) :
          file.pages[k].raises \/ ~Truthy(file.pages[k].extracted)

\* C3: for an uploaded document without extractable text, extraction returns
\* None (not openable, or a page raised) or the empty string, the PDF action
\* ends with the single error "pdf_unreadable", and no prompt is ever sent.
C3_PdfWithoutTextNeverReachesModel ==
    (mode = "pdf" /\ NoExtractableText(uploaded_file))
    => /\ text = (IF ~uploaded_file.opens
                     \/ \E k \in 1..Len(uploaded_file.pages) : uploaded_file.pages[k].raises
                  THEN PyNone ELSE PyStr(<<>>))
       /\ ~Truthy(text)
       /\ pc = "done"
       /\ messages = <<Msg("error", "pdf_unreadable", 0, 0)>>
       /\ prompts = <<>>
       /\ response = PyUnset

C3_Witness ==
    /\ mode = "pdf"
    /\ uploaded_file.opens
    /\ Len(uploaded_file.pages) > 0
    /\ \A k \in 1..Len(uploaded_file.pages) : ~uploaded_file.pages[k].raises
    /\ NoExtractableText(uploaded_file)
    /\ pc = "done"

\* C4: the end dateTime of every submitted body is not null; it is the
\* candidate's end time when one was supplied and the start time otherwise.
C4_EndTimeNeverNull ==
    \A k \in 1..Len(inserts) :
        LET event == events[inserts[k].idx]
            body == inserts[k].body
        IN /\ body.end # PyNone
           /\ IF HasKey(event, END_TIME) /\ GetKey(event, END_TIME) # PyNone
              THEN body.end = GetKey(event, END_TIME)
              ELSE body.end = GetKey(event, START_TIME)

\* C5: for a reply that is a valid JSON payload between code fences, the
\* cleaned text is the payload and parses to the payload's value, also when a
\* string of the payload holds backticks.
C5_FenceStrippingKeepsPayload ==
    \A w \in Wrappers, v \in FencePayloads :
        response = PyStr(Wrap(w, Dumps(v)))
        => /\ clean = PyStr(Dumps(v))
           /\ data = v

\* C6: every prompt sent embeds exactly the first min(len(text), 5000)
\* characters of the text.
C6_PromptEmbedsTruncatedText ==
    \A k \in 1..Len(prompts) :
        LET head == Len(PromptHead("t0"))
            embedded == SubSeq(prompts[k], head + 1, Len(prompts[k]) - Len(PromptTail))
        IN /\ Len(embedded) = (IF Len(content) > 5000 THEN 5000 ELSE Len(content))
           /\ \A j \in 1..Len(embedded) : embedded[j] = content[j]

C6_Witness == Len(prompts) = 1 /\ Len(content) = MaxPromptChars + 1

\* the shape the prompt asks for: a mapping whose events, if any, is a list
\* of records
ExpectedShape(v) ==
    /\ v.t = "dict"
    /\ HasKey(v, EVENTS)
       => /\ GetKey(v, EVENTS).t = "list"
          /\ \A k \in 1..Len(GetKey(v, EVENTS).elems) : GetKey(v, EVENTS).elems[k].t = "dict"

\* C7: once the model call has failed or its reply is not of the expected
\* shape, the run halts: it never ends in an uncaught exception, never builds
\* the calendar service, makes no insert call and no second model call.
\* (The halting part of the claim; the kind of message shown is left aside.)
C7_UnparsableReplyHalts ==
    (Len(prompts) > 0 /\ (data = PyUnset \/ ~ExpectedShape(data)))
    => /\ pc # "crashed"
       /\ service = "unset"
       /\ inserts = <<>>
       /\ Len(prompts) = 1

\* C8: when get_calendar_service returned no handle, exactly one error, a
\* credential error, has been reported, the run is over with no insert call
\* and no success message; refresh and model call happen at most once.
C8_NoServiceHalts ==
    /\ Len(refreshes) <= 1
    /\ Len(prompts) <= 1
    /\ service = "None"
       => /\ pc = "done"
          /\ inserts = <<>>
          /\ success_count = 0
          /\ MsgsOf("success") = {} /\ MsgsOf("toast") = {}
          /\ Cardinality(MsgsOf("error")) = 1
          /\ \A k \in MsgsOf("error") :
                messages[k].text \in {"token_not_refreshable", "no_valid_credential"}

C8_Witness == service = "None" /\ refreshes = <<"raised">> /\ Len(prompts) = 1

\* C9: a refresh is attempted exactly when the credential is present, not
\* valid, expired and has a refresh token; a handle is returned exactly when
\* the credential was valid or that refresh returned.
C9_ServiceIffUsableCredential ==
    service # "unset"
    => LET c == TOKEN_DICT
           wasValid == c.present /\ c.token /\ ~c.expired
           due == c.present /\ ~wasValid /\ c.expired /\ c.refresh_token
       IN /\ Len(refreshes) = (IF due THEN 1 ELSE 0)
          /\ (service = "service") <=> (wasValid \/ (due /\ refreshes = <<"ok">>))
          /\ (service = "None") <=> ~(wasValid \/ (due /\ refreshes = <<"ok">>))

C9_Witness == service = "service" /\ refreshes = <<"ok">> /\ ~TOKEN_DICT.token

\* C10: after the loop, success_count equals the number of insert calls that
\* succeeded, and a failure message names only a candidate that was not
\* created.
C10_BookkeepingMatchesCalendar ==
    LoopFinished
    => /\ success_count = Cardinality(OkInserts)
       /\ \A k \in MsgsWith("error", "insert_failed") :
             ~\E n \in OkInserts : inserts[n].idx = messages[k].idx
====
